---- MODULE Spec2Model ----
(***************************************************************************)
(* Draft job lifecycle and resumable multi-file upload tracker of pic-drm  *)
(* (src/src/routes/jobs.ts).  Every handler is an async function; each     *)
(* `await` on the D1 database or the R2 bucket is one atomic step, and     *)
(* steps of different requests interleave freely.  A request occupies a    *)
(* slot from its first store operation until its response is retired.      *)
(***************************************************************************)
EXTENDS Integers, Sequences, FiniteSets, TLC

\* ---- bounds of the model ------------------------------------------------
MaxJobs == 1
MaxFiles == 2
MaxReq == 2
MaxRecipients == 1
\* files of a draft in the sequential specification SpecSeq
MaxSeqFiles == 3

Users == {"alice", "bob"}
\* the ids a request may name: those create-draft can hand out, and one it never does
JobIds == 1..(MaxJobs + 1)
FileIndices == 0..(MaxFiles - 1)
Slots == 1..MaxReq

\* ---- values -------------------------------------------------------------
NoKey == <<0, 0>>
NoJobRow == [total_files |-> 0, uploaded_files |-> 0, status |-> "none"]
NoResp == [code |-> 0]
\* history kept with a request: what the store held for the job and index it names
\* when its first SELECT ran
NoSaw == [status |-> "none", owner |-> "none", row |-> FALSE]

HTTPException(code, msg) == [code |-> code, message |-> msg]
Json(body, code) == [code |-> code, body |-> body]

Idle ==
  [kind |-> "none", pc |-> "idle", user |-> "none", job |-> 0, idx |-> 0,
   hasFile |-> FALSE, nFiles |-> 0, nRecipients |-> 0, keys |-> <<>>,
   key |-> NoKey, jobRow |-> NoJobRow, resp |-> NoResp, saw |-> NoSaw,
   name |-> "none", password_hash |-> <<"none", "none">>]

VARIABLES
  jobs,            \* table jobs: id -> row
  job_files,       \* table job_files: rows in rowid (insertion) order
  job_recipients,  \* table job_recipients: rows in rowid order
  bucket,          \* R2 bucket: the set of keys holding an object
  nextJob,         \* number of job ids drawn from crypto.randomUUID()
  nextTok,         \* number of storage-key tokens drawn from crypto.randomUUID()
  req,             \* slot -> the request in flight there, its locals and response
  incs,            \* history: <<job, index>> -> increments made on behalf of that index
  script,          \* history: how many calls of ScenarioA have been answered in a row (-1: off)
  users,           \* table users: rows in rowid order
  presented        \* slot -> the Authorization header its client sends

vars == <<jobs, job_files, job_recipients, bucket, nextJob, nextTok, req, incs, script,
          users, presented>>
store == <<jobs, job_files, job_recipients, bucket>>

\* ---- helpers on sequences -----------------------------------------------
Range(s) == {s[k] : k \in DOMAIN s}
Min2(a, b) == IF a < b THEN a ELSE b

\* ---- the SQL statements of the handlers, as queries on the tables ---------
\* jobs.ts:292-299  SELECT jf.storage_key, jf.upload_status FROM job_files jf
\*   INNER JOIN jobs j ON j.id = jf.job_id
\*   WHERE jf.job_id = ? AND jf.file_index = ? AND j.user_email = ? AND j.status = 'draft'
UploadFileRows_AnyStatus(jobId, fileIndex, userEmail) ==
  SelectSeq(job_files,
    LAMBDA jf : /\ jf.job_id = jobId
                /\ jf.file_index = fileIndex
                /\ jf.job_id \in DOMAIN jobs
                /\ jobs[jf.job_id].user_email = userEmail)

UploadFileRows_AnyOwner(jobId, fileIndex, userEmail) ==
  SelectSeq(job_files,
    LAMBDA jf : /\ jf.job_id = jobId
                /\ jf.file_index = fileIndex
                /\ jf.job_id \in DOMAIN jobs
                /\ jobs[jf.job_id].status = "draft")

UploadFileRows_AnyIndex(jobId, fileIndex, userEmail) ==
  SelectSeq(job_files,
    LAMBDA jf : /\ jf.job_id = jobId
                /\ jf.job_id \in DOMAIN jobs
                /\ jobs[jf.job_id].user_email = userEmail
                /\ jobs[jf.job_id].status = "draft")

UploadFileRows(jobId, fileIndex, userEmail) ==
  SelectSeq(job_files,
    LAMBDA jf : /\ jf.job_id = jobId
                /\ jf.file_index = fileIndex
                /\ jf.job_id \in DOMAIN jobs
                /\ jobs[jf.job_id].user_email = userEmail
                /\ jobs[jf.job_id].status = "draft")

\* jobs.ts:361-365, 396-400, 442-446
\*   SELECT ... FROM jobs WHERE id = ? AND user_email = ?
JobRowFound_AnyOwner(jobId, userEmail) == jobId \in DOMAIN jobs

JobRowFound(jobId, userEmail) ==
  /\ jobId \in DOMAIN jobs
  /\ jobs[jobId].user_email = userEmail

\* jobs.ts:316-321  the rows matched by
\*   UPDATE job_files SET upload_status = 'uploaded'
\*   WHERE job_id = ? AND file_index = ? AND upload_status = 'pending'
FlipMatches_Unguarded(jf, jobId, fileIndex) ==
  /\ jf.job_id = jobId
  /\ jf.file_index = fileIndex

FlipMatches(jf, jobId, fileIndex) ==
  /\ jf.job_id = jobId
  /\ jf.file_index = fileIndex
  /\ jf.upload_status = "pending"

FlipChanges_Always(jobId, fileIndex) == Cardinality({jobId})

FlipChanges(jobId, fileIndex) ==
  Cardinality({k \in DOMAIN job_files : FlipMatches(job_files[k], jobId, fileIndex)})

FlipUpdate_Delete(jobId, fileIndex) ==
  SelectSeq(job_files, LAMBDA jf : ~FlipMatches(jf, jobId, fileIndex))

FlipUpdate(jobId, fileIndex) ==
  [k \in DOMAIN job_files |->
     IF FlipMatches(job_files[k], jobId, fileIndex)
     THEN [job_files[k] EXCEPT !.upload_status = "uploaded"]
     ELSE job_files[k]]

\* jobs.ts:324-328  UPDATE jobs SET uploaded_files = uploaded_files + 1 WHERE id = ?
IncrementUploaded_LostUpdate(jobId) ==
  IF jobId \in DOMAIN jobs
  THEN [jobs EXCEPT ![jobId].uploaded_files = 1]
  ELSE jobs

IncrementUploaded_NoWhere(jobId) ==
  [j \in DOMAIN jobs |-> [jobs[j] EXCEPT !.uploaded_files = @ + 1]]

IncrementUploaded(jobId) ==
  IF jobId \in DOMAIN jobs
  THEN [jobs EXCEPT ![jobId].uploaded_files = @ + 1]
  ELSE jobs

\* jobs.ts:381, 456  UPDATE jobs SET status = ? WHERE id = ?
SetStatus_ResetCounter(jobId, status) ==
  IF jobId \in DOMAIN jobs
  THEN [jobs EXCEPT ![jobId].status = status, ![jobId].uploaded_files = 0]
  ELSE jobs

SetStatus(jobId, status) ==
  IF jobId \in DOMAIN jobs
  THEN [jobs EXCEPT ![jobId].status = status]
  ELSE jobs

\* jobs.ts:406-412  SELECT file_index FROM job_files
\*   WHERE job_id = ? AND upload_status = 'pending'   (table scan, rowid order)
\* followed by pendingResult.results.map((r) => r.file_index)
PendingRows(jobId) ==
  SelectSeq(job_files, LAMBDA jf : jf.job_id = jobId /\ jf.upload_status = "pending")

PendingIndices(jobId) ==
  [k \in DOMAIN PendingRows(jobId) |-> PendingRows(jobId)[k].file_index]

\* jobs.ts:236-238  one storage key per file: jobs/${jobId}/${randomUUID()}-${fileName}
StorageKeys_Shared(jobId, n, tok) == [k \in 1..n |-> <<jobId, tok + 1>>]

StorageKeys(jobId, n, tok) == [k \in 1..n |-> <<jobId, tok + k>>]

\* jobs.ts:260-265  the job_files rows of the batch, in the order of fileMeta
FileInserts_Reversed(jobId, keys) ==
  [k \in DOMAIN keys |->
     [job_id |-> jobId, file_index |-> Len(keys) - k,
      storage_key |-> keys[Len(keys) + 1 - k], upload_status |-> "pending"]]

FileInserts_OneBased(jobId, keys) ==
  [k \in DOMAIN keys |->
     [job_id |-> jobId, file_index |-> k, storage_key |-> keys[k],
      upload_status |-> "pending"]]

FileInserts(jobId, keys) ==
  [k \in DOMAIN keys |->
     [job_id |-> jobId, file_index |-> k - 1, storage_key |-> keys[k],
      upload_status |-> "pending"]]

\* jobs.ts:267-271  the job_recipients rows of the batch
RecipientInserts(jobId, n) == [k \in 1..n |-> [job_id |-> jobId, recipient |-> k]]

Saw(jobId, fileIndex) ==
  IF jobId \in DOMAIN jobs
  THEN [status |-> jobs[jobId].status, owner |-> jobs[jobId].user_email,
        row |-> \E k \in DOMAIN job_files :
                  job_files[k].job_id = jobId /\ job_files[k].file_index = fileIndex]
  ELSE NoSaw

\* ---- history: the calls of Scenario A (spec.md section 8), made one after
\* another by the owner of job 1 ----------------------------------------------
Call(kind, idx, hasFile, nFiles, nRecipients) ==
  [kind |-> kind, user |-> "alice", job |-> 1, idx |-> idx, hasFile |-> hasFile,
   nFiles |-> nFiles, nRecipients |-> nRecipients]

ScenarioA ==
  << Call("draft", 0, FALSE, 3, 1),
     Call("upload", 1, TRUE, 0, 0),
     Call("upload", 1, TRUE, 0, 0),
     Call("upload", 0, TRUE, 0, 0),
     Call("upload", 2, TRUE, 0, 0),
     Call("submit", 0, FALSE, 0, 0),
     Call("status", 0, FALSE, 0, 0) >>

CallOf(r) ==
  [kind |-> r.kind, user |-> r.user, job |-> r.job, idx |-> r.idx,
   hasFile |-> r.hasFile, nFiles |-> r.nFiles, nRecipients |-> r.nRecipients]

ScriptNext(pos, r) ==
  IF pos >= 0 /\ pos < Len(ScenarioA) /\ CallOf(r) = ScenarioA[pos + 1]
  THEN pos + 1
  ELSE -1

\* a response delivered in this step moves the script on, or switches it off
Observed ==
  script' =
    IF \E s \in Slots : req[s].pc # "done" /\ req'[s].pc = "done"
    THEN ScriptNext(script,
           req'[CHOOSE s \in Slots : req[s].pc # "done" /\ req'[s].pc = "done"])
    ELSE script

\* ---- accounts and bearer tokens --------------------------------------------
\* auth.ts:248-273  hashPassword: `${saltHex}:${hashHex}`, the hash being
\* PBKDF2 of the password under a salt from crypto.getRandomValues
HashPassword(salt, password) == <<salt, <<"pbkdf2", salt, password>>>>

\* the users rows of the accounts the job requests are made for
\* (jobs.user_email REFERENCES users(email))
RegisteredUsers ==
  << [email |-> "alice", name |-> "n1", password_hash |-> HashPassword("s1", "p1")],
     [email |-> "bob", name |-> "n1", password_hash |-> HashPassword("s1", "p1")] >>

\* A header: whether it is `Bearer <token>`, whether the token's HS256 signature
\* verifies under JWT_SECRET, whether its exp is past, and the claims it carries.
Token(bearer, signed, expired, sub, hasName, hasIat, hasExp, type) ==
  [bearer |-> bearer, signed |-> signed, expired |-> expired, sub |-> sub,
   hasName |-> hasName, hasIat |-> hasIat, hasExp |-> hasExp, type |-> type]

NoHeader == Token(FALSE, FALSE, FALSE, "absent", FALSE, FALSE, FALSE, "none")

\* the tokens the routers sign with JWT_SECRET (auth.ts:314-329,
\* adminAuth.ts:69-84): access and admin tokens carry name, refresh tokens do not
TokenTypes == {"access", "refresh", "admin", "admin-refresh"}
Issued(sub, type, expired) ==
  Token(TRUE, TRUE, expired, sub, type \in {"access", "admin"}, TRUE, TRUE, type)

\* the headers a client may send: none, a token signed with another secret,
\* an issued token, live or expired, or a signed token lacking one claim
Tokens ==
  {NoHeader}
    \cup {Token(TRUE, FALSE, FALSE, u, TRUE, TRUE, TRUE, "access") : u \in Users}
    \cup {Issued(u, t, e) : u \in Users, t \in TokenTypes, e \in BOOLEAN}
    \cup {Token(TRUE, TRUE, FALSE, "absent", TRUE, TRUE, TRUE, "access"),
          Token(TRUE, TRUE, FALSE, "alice", TRUE, FALSE, TRUE, "access"),
          Token(TRUE, TRUE, FALSE, "alice", TRUE, TRUE, FALSE, "access")}

\* ---- middleware authenticate (middleware/auth.ts:46-70) --------------------
\* hono/jwt verify: the signature must verify and exp must not be past
Verify(tok) == tok.signed /\ ~tok.expired

\* middleware/auth.ts:12-21
IsJwtPayload_NoName(tok) == tok.sub # "absent" /\ tok.hasIat /\ tok.hasExp

IsJwtPayload(tok) == tok.sub # "absent" /\ tok.hasName /\ tok.hasIat /\ tok.hasExp

\* the response the middleware throws, NoResp when it calls next()
Authenticate(tok) ==
  IF ~tok.bearer
  THEN HTTPException(401, "Missing or malformed Authorization header.")
  ELSE IF ~Verify(tok) THEN HTTPException(401, "Invalid or expired token.")
  ELSE IF ~IsJwtPayload(tok) THEN HTTPException(401, "Invalid token payload.")
  ELSE NoResp

\* ---- the state after construction: empty tables, empty bucket ------------
Init ==
  /\ jobs = <<>>
  /\ job_files = <<>>
  /\ job_recipients = <<>>
  /\ bucket = {}
  /\ nextJob = 0
  /\ nextTok = 0
  /\ req = [s \in Slots |-> Idle]
  /\ users = RegisteredUsers
  /\ presented = [s \in Slots |-> NoHeader]
  /\ incs = [p \in JobIds \X FileIndices |-> 0]
  /\ script = -1

\* The handler returns: its locals die, the response stays until it is retired.
Done(s, resp) ==
  [req EXCEPT ![s] = [Idle EXCEPT !.kind = req[s].kind, !.pc = "done",
                                  !.user = req[s].user, !.job = req[s].job,
                                  !.idx = req[s].idx, !.hasFile = req[s].hasFile,
                                  !.nFiles = req[s].nFiles,
                                  !.nRecipients = req[s].nRecipients,
                                  !.saw = req[s].saw, !.resp = resp]]

\* Requests are anonymous: a new request takes the first free slot.
Free(s) == req[s].pc = "idle" /\ \A t \in Slots : t < s => req[t].pc # "idle"

\* ---- POST /jobs/draft (jobs.ts:228-276) ----------------------------------
\* CreateDraftRequestSchema (types/job.ts:44-50): both lists need one entry,
\* else the default hook answers 400 before the handler runs.
CreateDraftValid_FilesOnly(nFiles, nRecipients) == nFiles >= 1

CreateDraftValid(nFiles, nRecipients) == nFiles >= 1 /\ nRecipients >= 1

CreateDraftRejected(s, u, nFiles, nRecipients) ==
  /\ Free(s)
  /\ ~CreateDraftValid(nFiles, nRecipients)
  /\ req' = [req EXCEPT ![s] =
       [Idle EXCEPT !.kind = "draft", !.pc = "done", !.user = u,
                    !.nFiles = nFiles, !.nRecipients = nRecipients,
                    !.resp = HTTPException(400, "validation")]]
  /\ UNCHANGED <<jobs, job_files, job_recipients, bucket, nextJob, nextTok, incs>>
  /\ UNCHANGED <<users, presented>>
  /\ Observed

\* jobId and storageKeys are drawn, then INSERT INTO jobs ... 'draft', ?, 0
CreateDraftInsertJob(s, u, nFiles, nRecipients) ==
  /\ Free(s)
  /\ CreateDraftValid(nFiles, nRecipients)
  /\ nextJob < MaxJobs
  /\ LET jobId == nextJob + 1 IN
     /\ nextJob' = jobId
     /\ nextTok' = nextTok + nFiles
     /\ jobs' = jobs @@ (jobId :> [user_email |-> u, status |-> "draft",
                                   total_files |-> nFiles, uploaded_files |-> 0])
     /\ req' = [req EXCEPT ![s] =
          [Idle EXCEPT !.kind = "draft", !.pc = "batch", !.user = u, !.job = jobId,
                       !.nFiles = nFiles, !.nRecipients = nRecipients,
                       !.keys = StorageKeys(jobId, nFiles, nextTok)]]
  /\ UNCHANGED <<job_files, job_recipients, bucket, incs>>
  /\ UNCHANGED <<users, presented>>
  /\ Observed

\* DB.batch([...fileInserts, ...recipientInserts]), then 201 { jobId }
CreateDraftBatch(s) ==
  /\ req[s].kind = "draft" /\ req[s].pc = "batch"
  /\ job_files' = job_files \o FileInserts(req[s].job, req[s].keys)
  /\ job_recipients' = job_recipients \o RecipientInserts(req[s].job, req[s].nRecipients)
  /\ req' = Done(s, Json([jobId |-> req[s].job], 201))
  /\ UNCHANGED <<jobs, bucket, nextJob, nextTok, incs>>
  /\ UNCHANGED <<users, presented>>
  /\ Observed

\* ---- PUT /jobs/{jobId}/files/{fileIndex} (jobs.ts:287-349) ---------------
\* The ownership/draft SELECT; no row -> 404; then the form data is read and a
\* missing binary `file` field -> 400.
UploadFileSelect_PayloadFirst(s, u, jobId, fileIndex, hasFile) ==
  /\ Free(s)
  /\ LET rows == UploadFileRows(jobId, fileIndex, u)
         r == [Idle EXCEPT !.kind = "upload", !.user = u, !.job = jobId,
                           !.idx = fileIndex, !.hasFile = hasFile,
                           !.saw = Saw(jobId, fileIndex)]
     IN req' = [req EXCEPT ![s] =
          IF ~hasFile
          THEN [r EXCEPT !.pc = "done",
                  !.resp = HTTPException(400, "Missing file field.")]
          ELSE IF rows = <<>>
          THEN [r EXCEPT !.pc = "done",
                  !.resp = HTTPException(404, "File not found or job is not in draft state.")]
          ELSE [r EXCEPT !.pc = "put", !.key = rows[1].storage_key]]
  /\ UNCHANGED <<jobs, job_files, job_recipients, bucket, nextJob, nextTok, incs>>
  /\ UNCHANGED <<users, presented>>
  /\ Observed

UploadFileSelect(s, u, jobId, fileIndex, hasFile) ==
  /\ Free(s)
  /\ LET rows == UploadFileRows(jobId, fileIndex, u)
         r == [Idle EXCEPT !.kind = "upload", !.user = u, !.job = jobId,
                           !.idx = fileIndex, !.hasFile = hasFile,
                           !.saw = Saw(jobId, fileIndex)]
     IN req' = [req EXCEPT ![s] =
          IF rows = <<>>
          THEN [r EXCEPT !.pc = "done",
                  !.resp = HTTPException(404, "File not found or job is not in draft state.")]
          ELSE IF ~hasFile
          THEN [r EXCEPT !.pc = "done",
                  !.resp = HTTPException(400, "Missing file field.")]
          ELSE [r EXCEPT !.pc = "put", !.key = rows[1].storage_key]]
  /\ UNCHANGED <<jobs, job_files, job_recipients, bucket, nextJob, nextTok, incs>>
  /\ UNCHANGED <<users, presented>>
  /\ Observed

\* BUCKET.put(fileRow.storage_key, file)
UploadFilePut_ByIndex(s) ==
  /\ req[s].kind = "upload" /\ req[s].pc = "put"
  /\ bucket' = bucket \cup {<<req[s].job, req[s].idx>>}
  /\ req' = [req EXCEPT ![s].pc = "flip", ![s].key = <<req[s].job, req[s].idx>>]
  /\ UNCHANGED <<jobs, job_files, job_recipients, nextJob, nextTok, incs>>
  /\ UNCHANGED <<users, presented>>
  /\ Observed

UploadFilePut_Skip(s) ==
  /\ req[s].kind = "upload" /\ req[s].pc = "put"
  /\ req' = [req EXCEPT ![s].pc = "flip"]
  /\ UNCHANGED <<jobs, job_files, job_recipients, bucket, nextJob, nextTok, incs>>
  /\ UNCHANGED <<users, presented>>
  /\ Observed

UploadFilePut(s) ==
  /\ req[s].kind = "upload" /\ req[s].pc = "put"
  /\ bucket' = bucket \cup {req[s].key}
  /\ req' = [req EXCEPT ![s].pc = "flip"]
  /\ UNCHANGED <<jobs, job_files, job_recipients, nextJob, nextTok, incs>>
  /\ UNCHANGED <<users, presented>>
  /\ Observed

\* the guarded UPDATE job_files; updateResult.meta.changes decides the next step
UploadFileFlip(s) ==
  /\ req[s].kind = "upload" /\ req[s].pc = "flip"
  /\ job_files' = FlipUpdate(req[s].job, req[s].idx)
  /\ req' = [req EXCEPT ![s].pc =
       IF FlipChanges(req[s].job, req[s].idx) > 0 THEN "incr" ELSE "read"]
  /\ UNCHANGED <<jobs, job_recipients, bucket, nextJob, nextTok, incs>>
  /\ UNCHANGED <<users, presented>>
  /\ Observed

\* if (changes > 0) UPDATE jobs SET uploaded_files = uploaded_files + 1
UploadFileIncrement(s) ==
  /\ req[s].kind = "upload" /\ req[s].pc = "incr"
  /\ jobs' = IncrementUploaded(req[s].job)
  /\ incs' = [incs EXCEPT ![<<req[s].job, req[s].idx>>] = Min2(@ + 1, 2)]
  /\ req' = [req EXCEPT ![s].pc = "read"]
  /\ UNCHANGED <<job_files, job_recipients, bucket, nextJob, nextTok>>
  /\ UNCHANGED <<users, presented>>
  /\ Observed

\* SELECT total_files, uploaded_files FROM jobs WHERE id = ?; no row -> 500
UploadFileRead_Waits(s) ==
  /\ req[s].kind = "upload" /\ req[s].pc = "read"
  /\ req[s].job \in DOMAIN jobs
  /\ jobs[req[s].job].uploaded_files = jobs[req[s].job].total_files
  /\ req' = Done(s,
       Json([fileIndex |-> req[s].idx,
             uploadedFiles |-> jobs[req[s].job].uploaded_files,
             totalFiles |-> jobs[req[s].job].total_files], 200))
  /\ UNCHANGED <<jobs, job_files, job_recipients, bucket, nextJob, nextTok, incs>>
  /\ UNCHANGED <<users, presented>>
  /\ Observed

UploadFileRead(s) ==
  /\ req[s].kind = "upload" /\ req[s].pc = "read"
  /\ req' = Done(s,
       IF req[s].job \in DOMAIN jobs
       THEN Json([fileIndex |-> req[s].idx,
                  uploadedFiles |-> jobs[req[s].job].uploaded_files,
                  totalFiles |-> jobs[req[s].job].total_files], 200)
       ELSE HTTPException(500, "Failed to retrieve job state."))
  /\ UNCHANGED <<jobs, job_files, job_recipients, bucket, nextJob, nextTok, incs>>
  /\ UNCHANGED <<users, presented>>
  /\ Observed

\* ---- POST /jobs/{jobId}/submit (jobs.ts:357-384) -------------------------
\* The decision taken on the row read by the SELECT (jobs.ts:367-379).
SubmitOutcome_NoCompleteness(found, row) ==
  IF ~found THEN HTTPException(404, "Job not found.")
  ELSE IF row.status # "draft" THEN HTTPException(400, "Already submitted.")
  ELSE NoResp

SubmitOutcome_NoStatusCheck(found, row) ==
  IF ~found THEN HTTPException(404, "Job not found.")
  ELSE IF row.uploaded_files < row.total_files
  THEN HTTPException(400, "Not all files have been uploaded yet.")
  ELSE NoResp

SubmitOutcome(found, row) ==
  IF ~found THEN HTTPException(404, "Job not found.")
  ELSE IF row.status # "draft" THEN HTTPException(400, "Already submitted.")
  ELSE IF row.uploaded_files < row.total_files
  THEN HTTPException(400, "Not all files have been uploaded yet.")
  ELSE NoResp

SubmitJobSelect_UpdateFirst(s, u, jobId) ==
  /\ Free(s)
  /\ LET found == JobRowFound(jobId, u)
         out == SubmitOutcome(found, IF found THEN jobs[jobId] ELSE NoJobRow)
         r == [Idle EXCEPT !.kind = "submit", !.user = u, !.job = jobId,
                           !.saw = Saw(jobId, 0)]
     IN /\ req' = [req EXCEPT ![s] =
             IF out = NoResp THEN [r EXCEPT !.pc = "update"]
             ELSE [r EXCEPT !.pc = "done", !.resp = out]]
        /\ jobs' = IF found THEN SetStatus(jobId, "pending") ELSE jobs
  /\ UNCHANGED <<job_files, job_recipients, bucket, nextJob, nextTok, incs>>
  /\ UNCHANGED <<users, presented>>
  /\ Observed

SubmitJobSelect(s, u, jobId) ==
  /\ Free(s)
  /\ LET found == JobRowFound(jobId, u)
         out == SubmitOutcome(found, IF found THEN jobs[jobId] ELSE NoJobRow)
         r == [Idle EXCEPT !.kind = "submit", !.user = u, !.job = jobId,
                           !.saw = Saw(jobId, 0)]
     IN req' = [req EXCEPT ![s] =
          IF out = NoResp THEN [r EXCEPT !.pc = "update"]
          ELSE [r EXCEPT !.pc = "done", !.resp = out]]
  /\ UNCHANGED <<jobs, job_files, job_recipients, bucket, nextJob, nextTok, incs>>
  /\ UNCHANGED <<users, presented>>
  /\ Observed

\* UPDATE jobs SET status = 'pending' WHERE id = ?, then 200 { jobId }
SubmitJobUpdate(s) ==
  /\ req[s].kind = "submit" /\ req[s].pc = "update"
  /\ jobs' = SetStatus(req[s].job, "pending")
  /\ req' = Done(s, Json([jobId |-> req[s].job], 200))
  /\ UNCHANGED <<job_files, job_recipients, bucket, nextJob, nextTok, incs>>
  /\ UNCHANGED <<users, presented>>
  /\ Observed

\* ---- GET /jobs/{jobId}/status (jobs.ts:392-424) --------------------------
GetJobStatusSelectJob(s, u, jobId) ==
  /\ Free(s)
  /\ LET r == [Idle EXCEPT !.kind = "status", !.user = u, !.job = jobId,
                           !.saw = Saw(jobId, 0)]
     IN req' = [req EXCEPT ![s] =
          IF JobRowFound(jobId, u)
          THEN [r EXCEPT !.pc = "pending",
                  !.jobRow = [total_files |-> jobs[jobId].total_files,
                              uploaded_files |-> jobs[jobId].uploaded_files,
                              status |-> jobs[jobId].status]]
          ELSE [r EXCEPT !.pc = "done", !.resp = HTTPException(404, "Job not found.")]]
  /\ UNCHANGED <<jobs, job_files, job_recipients, bucket, nextJob, nextTok, incs>>
  /\ UNCHANGED <<users, presented>>
  /\ Observed

GetJobStatusSelectPending_Marks(s) ==
  /\ req[s].kind = "status" /\ req[s].pc = "pending"
  /\ req' = Done(s,
       Json([jobId |-> req[s].job,
             status |-> req[s].jobRow.status,
             totalFiles |-> req[s].jobRow.total_files,
             uploadedFiles |-> req[s].jobRow.uploaded_files,
             pendingIndices |-> PendingIndices(req[s].job)], 200))
  /\ job_files' = FlipUpdate(req[s].job, 0)
  /\ UNCHANGED <<jobs, job_recipients, bucket, nextJob, nextTok, incs>>
  /\ UNCHANGED <<users, presented>>
  /\ Observed

GetJobStatusSelectPending(s) ==
  /\ req[s].kind = "status" /\ req[s].pc = "pending"
  /\ req' = Done(s,
       Json([jobId |-> req[s].job,
             status |-> req[s].jobRow.status,
             totalFiles |-> req[s].jobRow.total_files,
             uploadedFiles |-> req[s].jobRow.uploaded_files,
             pendingIndices |-> PendingIndices(req[s].job)], 200))
  /\ UNCHANGED <<jobs, job_files, job_recipients, bucket, nextJob, nextTok, incs>>
  /\ UNCHANGED <<users, presented>>
  /\ Observed

\* ---- POST /jobs/{jobId}/complete (jobs.ts:438-459) -----------------------
CompleteOutcome_NoCheck(found, row) ==
  IF ~found THEN HTTPException(404, "Job not found.") ELSE NoResp

CompleteOutcome(found, row) ==
  IF ~found THEN HTTPException(404, "Job not found.")
  ELSE IF row.status # "pending" THEN HTTPException(400, "Job is not in pending state.")
  ELSE NoResp

CompleteJobSelect(s, u, jobId) ==
  /\ Free(s)
  /\ LET found == JobRowFound(jobId, u)
         out == CompleteOutcome(found, IF found THEN jobs[jobId] ELSE NoJobRow)
         r == [Idle EXCEPT !.kind = "complete", !.user = u, !.job = jobId,
                           !.saw = Saw(jobId, 0)]
     IN req' = [req EXCEPT ![s] =
          IF out = NoResp THEN [r EXCEPT !.pc = "update"]
          ELSE [r EXCEPT !.pc = "done", !.resp = out]]
  /\ UNCHANGED <<jobs, job_files, job_recipients, bucket, nextJob, nextTok, incs>>
  /\ UNCHANGED <<users, presented>>
  /\ Observed

CompleteJobUpdate(s) ==
  /\ req[s].kind = "complete" /\ req[s].pc = "update"
  /\ jobs' = SetStatus(req[s].job, "completed")
  /\ req' = Done(s, Json([jobId |-> req[s].job], 200))
  /\ UNCHANGED <<job_files, job_recipients, bucket, nextJob, nextTok, incs>>
  /\ UNCHANGED <<users, presented>>
  /\ Observed

\* ---- the response has been delivered; the slot takes the next request ----
Retire(s) ==
  /\ req[s].pc = "done"
  /\ req' = [req EXCEPT ![s] = Idle]
  /\ UNCHANGED <<jobs, job_files, job_recipients, bucket, nextJob, nextTok, incs>>
  /\ UNCHANGED <<users, presented>>
  /\ Observed

Next ==
  \/ \E s \in Slots, u \in Users, n \in 0..MaxFiles, m \in 0..MaxRecipients :
       CreateDraftRejected(s, u, n, m)
  \/ \E s \in Slots, u \in Users, n \in 0..MaxFiles, m \in 0..MaxRecipients :
       CreateDraftInsertJob(s, u, n, m)
  \/ \E s \in Slots : CreateDraftBatch(s)
  \/ \E s \in Slots, u \in Users, j \in JobIds, i \in FileIndices, f \in BOOLEAN :
       UploadFileSelect(s, u, j, i, f)
  \/ \E s \in Slots : UploadFilePut(s)
  \/ \E s \in Slots : UploadFileFlip(s)
  \/ \E s \in Slots : UploadFileIncrement(s)
  \/ \E s \in Slots : UploadFileRead(s)
  \/ \E s \in Slots, u \in Users, j \in JobIds : SubmitJobSelect(s, u, j)
  \/ \E s \in Slots : SubmitJobUpdate(s)
  \/ \E s \in Slots, u \in Users, j \in JobIds : GetJobStatusSelectJob(s, u, j)
  \/ \E s \in Slots : GetJobStatusSelectPending(s)
  \/ \E s \in Slots, u \in Users, j \in JobIds : CompleteJobSelect(s, u, j)
  \/ \E s \in Slots : CompleteJobUpdate(s)
  \/ \E s \in Slots : Retire(s)

Spec == Init /\ [][Next]_vars

\* ---- calls made one after another: a single slot, drafts of up to
\* MaxSeqFiles files, the script of Scenario A running -----------------------
SeqIndices == 0..(MaxSeqFiles - 1)

InitSeq ==
  /\ jobs = <<>>
  /\ job_files = <<>>
  /\ job_recipients = <<>>
  /\ bucket = {}
  /\ nextJob = 0
  /\ nextTok = 0
  /\ req = [s \in Slots |-> Idle]
  /\ users = RegisteredUsers
  /\ presented = [s \in Slots |-> NoHeader]
  /\ incs = [p \in JobIds \X SeqIndices |-> 0]
  /\ script = 0

NextSeq ==
  \/ \E u \in Users, n \in 0..MaxSeqFiles, m \in 0..MaxRecipients :
       CreateDraftRejected(1, u, n, m)
  \/ \E u \in Users, n \in 0..MaxSeqFiles, m \in 0..MaxRecipients :
       CreateDraftInsertJob(1, u, n, m)
  \/ CreateDraftBatch(1)
  \/ \E u \in Users, j \in JobIds, i \in SeqIndices, f \in BOOLEAN :
       UploadFileSelect(1, u, j, i, f)
  \/ UploadFilePut(1)
  \/ UploadFileFlip(1)
  \/ UploadFileIncrement(1)
  \/ UploadFileRead(1)
  \/ \E u \in Users, j \in JobIds : SubmitJobSelect(1, u, j)
  \/ SubmitJobUpdate(1)
  \/ \E u \in Users, j \in JobIds : GetJobStatusSelectJob(1, u, j)
  \/ GetJobStatusSelectPending(1)
  \/ \E u \in Users, j \in JobIds : CompleteJobSelect(1, u, j)
  \/ CompleteJobUpdate(1)
  \/ Retire(1)

SpecSeq == InitSeq /\ [][NextSeq]_vars

\* ---- store failures ---------------------------------------------------------
\* No handler wraps its awaits in try/catch and the app registers no onError:
\* when a D1 statement or the R2 put rejects, the statement has written
\* nothing, the rest of the handler does not run, and the framework answers 500.
InternalServerError == [code |-> 500, message |-> "Internal Server Error"]

\* jobs.ts:241-257  the INSERT INTO jobs rejects
CreateDraftInsertJobFails(s, u, nFiles, nRecipients) ==
  /\ Free(s)
  /\ CreateDraftValid(nFiles, nRecipients)
  /\ req' = [req EXCEPT ![s] =
       [Idle EXCEPT !.kind = "draft", !.pc = "done", !.user = u,
                    !.nFiles = nFiles, !.nRecipients = nRecipients,
                    !.resp = InternalServerError]]
  /\ UNCHANGED <<jobs, job_files, job_recipients, bucket, nextJob, nextTok, incs>>
  /\ UNCHANGED <<users, presented>>
  /\ Observed

\* jobs.ts:273  DB.batch rejects: none of its statements is applied, the jobs
\* row written by the earlier INSERT is not touched
CreateDraftBatchFails(s) ==
  /\ req[s].kind = "draft" /\ req[s].pc = "batch"
  /\ req' = Done(s, InternalServerError)
  /\ UNCHANGED <<jobs, job_files, job_recipients, bucket, nextJob, nextTok, incs>>
  /\ UNCHANGED <<users, presented>>
  /\ Observed

\* jobs.ts:313  BUCKET.put rejects
UploadFilePutFails_Swallowed(s) ==
  /\ req[s].kind = "upload" /\ req[s].pc = "put"
  /\ req' = [req EXCEPT ![s].pc = "flip"]
  /\ UNCHANGED <<jobs, job_files, job_recipients, bucket, nextJob, nextTok, incs>>
  /\ UNCHANGED <<users, presented>>
  /\ Observed

UploadFilePutFails(s) ==
  /\ req[s].kind = "upload" /\ req[s].pc = "put"
  /\ req' = Done(s, InternalServerError)
  /\ UNCHANGED <<jobs, job_files, job_recipients, bucket, nextJob, nextTok, incs>>
  /\ UNCHANGED <<users, presented>>
  /\ Observed

\* jobs.ts:316-321  the guarded UPDATE job_files rejects
UploadFileFlipFails(s) ==
  /\ req[s].kind = "upload" /\ req[s].pc = "flip"
  /\ req' = Done(s, InternalServerError)
  /\ UNCHANGED <<jobs, job_files, job_recipients, bucket, nextJob, nextTok, incs>>
  /\ UNCHANGED <<users, presented>>
  /\ Observed

\* jobs.ts:324-328  the UPDATE jobs SET uploaded_files + 1 rejects
UploadFileIncrementFails(s) ==
  /\ req[s].kind = "upload" /\ req[s].pc = "incr"
  /\ req' = Done(s, InternalServerError)
  /\ UNCHANGED <<jobs, job_files, job_recipients, bucket, nextJob, nextTok, incs>>
  /\ UNCHANGED <<users, presented>>
  /\ Observed

\* jobs.ts:331-335  the SELECT of the counters rejects
UploadFileReadFails(s) ==
  /\ req[s].kind = "upload" /\ req[s].pc = "read"
  /\ req' = Done(s, InternalServerError)
  /\ UNCHANGED <<jobs, job_files, job_recipients, bucket, nextJob, nextTok, incs>>
  /\ UNCHANGED <<users, presented>>
  /\ Observed

NextFail ==
  \/ Next
  \/ \E s \in Slots, u \in Users, n \in 0..MaxFiles, m \in 0..MaxRecipients :
       CreateDraftInsertJobFails(s, u, n, m)
  \/ \E s \in Slots : CreateDraftBatchFails(s)
  \/ \E s \in Slots : UploadFilePutFails(s)
  \/ \E s \in Slots : UploadFileFlipFails(s)
  \/ \E s \in Slots : UploadFileIncrementFails(s)
  \/ \E s \in Slots : UploadFileReadFails(s)

SpecFail == Init /\ [][NextFail]_vars

\* ---- two jobs: the store already holds a draft of bob, registered earlier
\* under the id create-draft does not draw again, with one file and one
\* recipient and nothing uploaded ---------------------------------------------
OtherJob == MaxJobs + 1

InitTwo ==
  /\ jobs = (OtherJob :> [user_email |-> "bob", status |-> "draft",
                          total_files |-> 1, uploaded_files |-> 0])
  /\ job_files = FileInserts(OtherJob, StorageKeys(OtherJob, 1, -1))
  /\ job_recipients = RecipientInserts(OtherJob, 1)
  /\ bucket = {}
  /\ nextJob = 0
  /\ nextTok = 0
  /\ req = [s \in Slots |-> Idle]
  /\ users = RegisteredUsers
  /\ presented = [s \in Slots |-> NoHeader]
  /\ incs = [p \in JobIds \X FileIndices |-> 0]
  /\ script = -1

SpecTwo == InitTwo /\ [][Next]_vars

\* ---- progress: once the store operation a handler awaits has returned, the
\* runtime resumes the handler; requests arrive and responses are collected
\* whenever the clients choose ----------------------------------------------------
Continue(s) ==
  \/ CreateDraftBatch(s)
  \/ UploadFilePut(s)
  \/ UploadFileFlip(s)
  \/ UploadFileIncrement(s)
  \/ UploadFileRead(s)
  \/ SubmitJobUpdate(s)
  \/ GetJobStatusSelectPending(s)
  \/ CompleteJobUpdate(s)

SpecLive == Init /\ [][Next]_vars /\ \A s \in Slots : WF_vars(Continue(s))

\* ---- the /jobs/* routes behind authenticate (jobs.ts:41, index.ts) ---------
\* The client of a slot sets the Authorization header of its next requests.
Present(s, tok) ==
  /\ Free(s)
  /\ presented' = [presented EXCEPT ![s] = tok]
  /\ UNCHANGED <<jobs, job_files, job_recipients, bucket, nextJob, nextTok, req, incs,
                 script, users>>

\* the middleware throws: the handler of the route does not run
Kinds == {"draft", "upload", "submit", "status", "complete"}

AuthenticateRejects(s, kind) ==
  /\ Free(s)
  /\ Authenticate(presented[s]) # NoResp
  /\ req' = [req EXCEPT ![s] =
       [Idle EXCEPT !.kind = kind, !.pc = "done", !.resp = Authenticate(presented[s])]]
  /\ UNCHANGED <<jobs, job_files, job_recipients, bucket, nextJob, nextTok, incs>>
  /\ UNCHANGED <<users, presented>>
  /\ Observed

\* the middleware calls next(): c.var.jwtPayload.sub is the handler's userEmail
Authenticated(s) == Authenticate(presented[s]) = NoResp
Sub(s) == presented[s].sub

NextAuth ==
  \/ \E tok \in Tokens : Present(1, tok)
  \/ \E kind \in Kinds : AuthenticateRejects(1, kind)
  \/ \E n \in 0..MaxFiles, m \in 0..MaxRecipients :
       Authenticated(1) /\ CreateDraftRejected(1, Sub(1), n, m)
  \/ \E n \in 0..MaxFiles, m \in 0..MaxRecipients :
       Authenticated(1) /\ CreateDraftInsertJob(1, Sub(1), n, m)
  \/ CreateDraftBatch(1)
  \/ \E j \in JobIds, i \in FileIndices, f \in BOOLEAN :
       Authenticated(1) /\ UploadFileSelect(1, Sub(1), j, i, f)
  \/ UploadFilePut(1)
  \/ UploadFileFlip(1)
  \/ UploadFileIncrement(1)
  \/ UploadFileRead(1)
  \/ \E j \in JobIds : Authenticated(1) /\ SubmitJobSelect(1, Sub(1), j)
  \/ SubmitJobUpdate(1)
  \/ \E j \in JobIds : Authenticated(1) /\ GetJobStatusSelectJob(1, Sub(1), j)
  \/ GetJobStatusSelectPending(1)
  \/ \E j \in JobIds : Authenticated(1) /\ CompleteJobSelect(1, Sub(1), j)
  \/ CompleteJobUpdate(1)
  \/ Retire(1)

SpecAuth == Init /\ [][NextAuth]_vars

\* ---- POST /auth/signup (auth.ts:418-446) ------------------------------------
Names == {"n1", "n2"}
Passwords == {"p1", "p2"}
Salts == {"s1", "s2"}

\* users.email is UNIQUE (part_001): the INSERT rejects with
\* 'UNIQUE constraint failed' when a row holds the email
UniqueViolation_Never(email) == email # email

UniqueViolation(email) == \E k \in DOMAIN users : users[k].email = email

\* const passwordHash = await hashPassword(password)
SignupHash(s, email, name, password, salt) ==
  /\ Free(s)
  /\ req' = [req EXCEPT ![s] =
       [Idle EXCEPT !.kind = "signup", !.pc = "insert", !.user = email,
                    !.name = name, !.password_hash = HashPassword(salt, password)]]
  /\ UNCHANGED <<jobs, job_files, job_recipients, bucket, nextJob, nextTok, incs>>
  /\ UNCHANGED <<users, presented>>
  /\ Observed

\* INSERT INTO users (email, name, password_hash); a UNIQUE failure is caught
\* and answered 409, else both tokens are built and the answer is 201
SignupInsert(s) ==
  /\ req[s].kind = "signup" /\ req[s].pc = "insert"
  /\ IF UniqueViolation(req[s].user)
     THEN /\ users' = users
          /\ req' = Done(s, HTTPException(409, "Email is already in use."))
     ELSE /\ users' = Append(users, [email |-> req[s].user, name |-> req[s].name,
                                     password_hash |-> req[s].password_hash])
          /\ req' = Done(s,
               Json([access_token |-> Issued(req[s].user, "access", FALSE),
                     refresh_token |-> Issued(req[s].user, "refresh", FALSE),
                     user |-> [email |-> req[s].user, name |-> req[s].name]], 201))
  /\ UNCHANGED <<jobs, job_files, job_recipients, bucket, nextJob, nextTok, incs>>
  /\ UNCHANGED presented
  /\ Observed

\* no account yet
InitSignup ==
  /\ jobs = <<>>
  /\ job_files = <<>>
  /\ job_recipients = <<>>
  /\ bucket = {}
  /\ nextJob = 0
  /\ nextTok = 0
  /\ req = [s \in Slots |-> Idle]
  /\ incs = [p \in JobIds \X FileIndices |-> 0]
  /\ script = -1
  /\ users = <<>>
  /\ presented = [s \in Slots |-> NoHeader]

NextSignup ==
  \/ \E s \in Slots, email \in Users, name \in Names, password \in Passwords,
        salt \in Salts : SignupHash(s, email, name, password, salt)
  \/ \E s \in Slots : SignupInsert(s)
  \/ \E s \in Slots : Retire(s)

SpecSignup == InitSignup /\ [][NextSignup]_vars

\* ========================================================================
\* Properties
\* ========================================================================
InFlight(s) == req[s].pc \notin {"idle", "done"}
Starts(s, kind) == req[s].pc = "idle" /\ req'[s].pc # "idle" /\ req'[s].kind = kind
UploadedCount(j) ==
  Cardinality({k \in DOMAIN job_files :
                 job_files[k].job_id = j /\ job_files[k].upload_status = "uploaded"})
FileStatus(j, i) ==
  {job_files[k].upload_status : k \in {k \in DOMAIN job_files :
       job_files[k].job_id = j /\ job_files[k].file_index = i}}
\* the request in slot s passed its ownership/draft check with a payload
Accepted(s) ==
  /\ req[s].saw.status = "draft" /\ req[s].saw.owner = req[s].user
  /\ req[s].saw.row /\ req[s].hasFile

\* C1: in every reachable state and for every job, uploaded_files equals the
\* number of the job's job_files rows whose upload_status is 'uploaded'.
C1_CounterEqualsUploaded ==
  \A j \in DOMAIN jobs : jobs[j].uploaded_files = UploadedCount(j)

\* C2: upload-file calls for one (job, index) of a draft job, one after another
\* or overlapping, increment uploaded_files once in total: never more than
\* once, and exactly once as soon as one of the calls has answered and none is
\* still running; every such call answers 200.
C2_IdempotentUpload ==
  \A j \in JobIds, i \in FileIndices :
    LET calls == {s \in Slots : req[s].kind = "upload" /\ req[s].job = j
                                 /\ req[s].idx = i /\ Accepted(s)}
    IN /\ incs[<<j, i>>] <= 1
       /\ \A s \in calls : req[s].pc = "done" => req[s].resp.code = 200
       /\ (calls # {} /\ \A s \in calls : req[s].pc = "done")
            => /\ incs[<<j, i>>] = 1
               /\ FileStatus(j, i) = {"uploaded"}

\* two calls for the same index have both answered 200 and the counter is 1
C2_Witness ==
  \E s, t \in Slots :
    /\ s # t
    /\ req[s].kind = "upload" /\ req[t].kind = "upload"
    /\ req[s].pc = "done" /\ req[t].pc = "done"
    /\ Accepted(s) /\ Accepted(t)
    /\ req[s].job = req[t].job /\ req[s].idx = req[t].idx
    /\ req[s].resp.code = 200 /\ req[t].resp.code = 200
    /\ incs[<<req[s].job, req[s].idx>>] = 1
    /\ jobs[req[s].job].uploaded_files = 1

\* C3: submit by the owner on a draft job answers the 400 'not all files'
\* error and changes nothing when uploaded_files < total_files; when they are
\* equal (uploaded_files never exceeds total_files) it goes on to set the
\* status to 'pending' and answers 200.
C3_SubmitStep(s) ==
  LET j == req'[s].job IN
  /\ (Starts(s, "submit") /\ JobRowFound(j, req'[s].user) /\ jobs[j].status = "draft")
       => /\ jobs[j].uploaded_files <= jobs[j].total_files
          /\ (jobs[j].uploaded_files < jobs[j].total_files
                => /\ req'[s].pc = "done"
                   /\ req'[s].resp = HTTPException(400, "Not all files have been uploaded yet.")
                   /\ UNCHANGED store)
          /\ (jobs[j].uploaded_files = jobs[j].total_files => req'[s].pc = "update")
  /\ (req[s].kind = "submit" /\ req[s].pc = "update" /\ req'[s].pc = "done")
       => /\ req'[s].resp = Json([jobId |-> j], 200)
          /\ jobs'[j].status = "pending"

C3_SubmissionGate == [][\A s \in Slots : C3_SubmitStep(s)]_vars

\* a submit that saw the draft job complete has answered 200 and the job is pending
C3_Witness ==
  \E s \in Slots :
    /\ req[s].kind = "submit" /\ req[s].pc = "done"
    /\ req[s].saw.status = "draft" /\ req[s].saw.owner = req[s].user
    /\ req[s].resp.code = 200
    /\ jobs[req[s].job].status = "pending"
    /\ jobs[req[s].job].uploaded_files = jobs[req[s].job].total_files

\* C4: an upload-file call on a job whose status is already 'pending' or
\* 'completed' answers 404 at once, so it writes no blob, and changes no
\* job_files status and no counter.
C4_UploadStep(s) ==
  LET j == req'[s].job IN
  (Starts(s, "upload") /\ j \in DOMAIN jobs /\ jobs[j].status \in {"pending", "completed"})
    => /\ req'[s].pc = "done"
       /\ req'[s].resp.code = 404
       /\ UNCHANGED store

C4_PostSubmissionUploadRejected == [][\A s \in Slots : C4_UploadStep(s)]_vars

\* the owner's upload of a registered index of a submitted job has answered 404
C4_Witness ==
  \E s \in Slots :
    /\ req[s].kind = "upload" /\ req[s].pc = "done"
    /\ req[s].saw.status \in {"pending", "completed"}
    /\ req[s].saw.owner = req[s].user /\ req[s].saw.row /\ req[s].hasFile
    /\ req[s].resp.code = 404

\* C5: an upload-file, get-status or submit call by a principal other than the
\* job's owner answers 404 at once and leaves jobs, job_files and the bucket
\* unchanged.
C5_ForeignStep(s) ==
  LET j == req'[s].job IN
  (/\ Starts(s, "upload") \/ Starts(s, "status") \/ Starts(s, "submit")
   /\ j \in DOMAIN jobs
   /\ jobs[j].user_email # req'[s].user)
    => /\ req'[s].pc = "done"
       /\ req'[s].resp.code = 404
       /\ UNCHANGED store

C5_OwnershipIsolation == [][\A s \in Slots : C5_ForeignStep(s)]_vars

\* a foreign submit of a fully uploaded draft and a foreign upload have answered 404
C5_Witness ==
  \E s, t \in Slots :
    /\ req[s].kind = "submit" /\ req[s].pc = "done"
    /\ req[s].saw.owner \notin {"none", req[s].user}
    /\ req[s].resp.code = 404
    /\ req[t].kind = "upload" /\ req[t].pc = "done"
    /\ req[t].saw.owner \notin {"none", req[t].user}
    /\ req[t].saw.status = "draft" /\ req[t].saw.row /\ req[t].hasFile
    /\ req[t].resp.code = 404

\* C6: what upload-file, get-status and submit answer to a caller who does not
\* own the job named depends on the operation alone: the same code and
\* message whether the job exists under another owner or not at all, whatever
\* the job's state and the payload.
NotFoundOf(kind) ==
  IF kind = "upload"
  THEN [code |-> 404, message |-> "File not found or job is not in draft state."]
  ELSE [code |-> 404, message |-> "Job not found."]

C6_NoExistenceLeak ==
  \A s \in Slots :
    (/\ req[s].kind \in {"upload", "status", "submit"}
     /\ req[s].pc # "idle"
     /\ req[s].saw.owner # req[s].user)
      => /\ req[s].pc = "done"
         /\ req[s].resp = NotFoundOf(req[s].kind)

\* two answered uploads with a payload, one for a job that did not exist and
\* one for another owner's draft job and registered index, carry the same response
C6_Witness ==
  \E s, t \in Slots :
    /\ req[s].kind = "upload" /\ req[t].kind = "upload"
    /\ req[s].pc = "done" /\ req[t].pc = "done"
    /\ req[s].saw.owner = "none"
    /\ req[t].saw.owner \notin {"none", req[t].user}
    /\ req[t].saw.status = "draft" /\ req[t].saw.row /\ req[t].hasFile
    /\ req[s].resp = req[t].resp

\* C7: a job's status only changes draft -> pending and pending -> completed:
\* nothing leaves 'completed' and nothing re-enters 'draft'.
C7_StatusStep(j) ==
  \/ jobs'[j].status = jobs[j].status
  \/ jobs[j].status = "draft" /\ jobs'[j].status = "pending"
  \/ jobs[j].status = "pending" /\ jobs'[j].status = "completed"

C7_StatusMonotone == [][\A j \in DOMAIN jobs : C7_StatusStep(j)]_vars

\* C8: for every job id, either the jobs row exists together with all of its
\* job_files rows and its job_recipients rows, or none of them exists.
FileRowCount(j) == Cardinality({k \in DOMAIN job_files : job_files[k].job_id = j})
RecipientRowCount(j) ==
  Cardinality({k \in DOMAIN job_recipients : job_recipients[k].job_id = j})

C8_CreateDraftAtomic ==
  \A j \in JobIds :
    IF j \in DOMAIN jobs
    THEN FileRowCount(j) = jobs[j].total_files /\ RecipientRowCount(j) >= 1
    ELSE FileRowCount(j) = 0 /\ RecipientRowCount(j) = 0

\* C9: the pendingIndices of a get-status response are in ascending order and
\* are exactly the file_index values of the job's job_files rows that are
\* 'pending' when the list is read.
Ascending(q) == \A a, b \in DOMAIN q : a < b => q[a] < q[b]

C9_StatusStep(s) ==
  (req[s].kind = "status" /\ req[s].pc = "pending" /\ req'[s].pc = "done")
    => LET q == req'[s].resp.body.pendingIndices IN
       /\ Ascending(q)
       /\ Range(q) = {i \in FileIndices : "pending" \in FileStatus(req[s].job, i)}

C10_PendingLengthMatches ==
  \A s \in Slots :
    (req[s].kind = "status" /\ req[s].pc = "done" /\ req[s].resp.code = 200)
      => Len(req[s].resp.body.pendingIndices)
           = req[s].resp.body.totalFiles - req[s].resp.body.uploadedFiles

\* C11: a create-draft with n >= 1 files and at least one recipient that
\* answers 201 has created a job that did not exist before, with status
\* 'draft', total_files = n, uploaded_files = 0 and exactly one job_files row
\* for each index 0..n-1, each 'pending'.
RowsOf(table, j, i) ==
  {k \in DOMAIN table : table[k].job_id = j /\ table[k].file_index = i}
RowsOfJob(table, j) == {k \in DOMAIN table : table[k].job_id = j}

C11_DraftStep(s) ==
  LET j == req'[s].job
      n == req'[s].nFiles
  IN
  /\ (Starts(s, "draft") /\ req'[s].pc = "batch") => j \notin DOMAIN jobs
  /\ (req[s].kind = "draft" /\ req[s].pc = "batch" /\ req'[s].pc = "done")
       => /\ req'[s].resp = Json([jobId |-> j], 201)
          /\ n >= 1 /\ req'[s].nRecipients >= 1
          /\ jobs'[j].status = "draft"
          /\ jobs'[j].total_files = n
          /\ jobs'[j].uploaded_files = 0
          /\ Cardinality(RowsOfJob(job_files', j)) = n
          /\ \A i \in 0..(n - 1) :
               /\ Cardinality(RowsOf(job_files', j, i)) = 1
               /\ \A k \in RowsOf(job_files', j, i) :
                    job_files'[k].upload_status = "pending"

C11_DraftCreated == [][\A s \in Slots : C11_DraftStep(s)]_vars

\* a draft of two files has answered 201 and both rows are there
C11_Witness ==
  \E s \in Slots :
    /\ req[s].kind = "draft" /\ req[s].pc = "done" /\ req[s].resp.code = 201
    /\ req[s].nFiles = 2
    /\ jobs[req[s].job].total_files = 2
    /\ Cardinality(RowsOfJob(job_files, req[s].job)) = 2

\* C12: create-draft with an empty recipient list or an empty file list
\* answers 400 at once: it draws no job id and writes no jobs, job_files or
\* job_recipients row, so get-status finds exactly the jobs it found before.
C12_RejectStep(s) ==
  (Starts(s, "draft") /\ (req'[s].nFiles = 0 \/ req'[s].nRecipients = 0))
    => /\ req'[s].pc = "done"
       /\ req'[s].resp.code = 400
       /\ UNCHANGED <<store, nextJob>>
       /\ \A j \in JobIds, u \in Users : JobRowFound(j, u)' = JobRowFound(j, u)

C12_EmptyDraftRejected == [][\A s \in Slots : C12_RejectStep(s)]_vars

\* a draft with files but no recipient was answered 400 and there is no job;
\* a get-status answered after it found nothing
C12_Witness ==
  \E s, t \in Slots :
    /\ req[s].kind = "draft" /\ req[s].pc = "done"
    /\ req[s].nFiles >= 1 /\ req[s].nRecipients = 0
    /\ req[s].resp.code = 400
    /\ DOMAIN jobs = {} /\ job_files = <<>> /\ job_recipients = <<>>
    /\ req[t].kind = "status" /\ req[t].pc = "done" /\ req[t].resp.code = 404

\* C13 (Scenario A), calls made one after another by the owner: create-draft
\* with 3 files gives total_files 3, uploaded_files 0, status draft; upload 1
\* gives 1; upload 1 again leaves 1; uploads of 0 and 2 give 3; submit sets
\* pending; get-status lists no pending index.
UploadAnswer(r, i, uploaded) ==
  r.resp = Json([fileIndex |-> i, uploadedFiles |-> uploaded, totalFiles |-> 3], 200)

C13_ScenarioA ==
  (req[1].pc = "done" /\ script >= 1) =>
    LET r == req[1] IN
    /\ jobs[1].total_files = 3
    /\ script = 1 => /\ r.resp = Json([jobId |-> 1], 201)
                     /\ jobs[1].uploaded_files = 0 /\ jobs[1].status = "draft"
    /\ script = 2 => UploadAnswer(r, 1, 1) /\ jobs[1].uploaded_files = 1
    /\ script = 3 => UploadAnswer(r, 1, 1) /\ jobs[1].uploaded_files = 1
    /\ script = 4 => UploadAnswer(r, 0, 2) /\ jobs[1].uploaded_files = 2
    /\ script = 5 => UploadAnswer(r, 2, 3) /\ jobs[1].uploaded_files = 3
    /\ script = 6 => /\ r.resp = Json([jobId |-> 1], 200)
                     /\ jobs[1].status = "pending"
    /\ script = 7 => /\ r.resp.code = 200
                     /\ r.resp.body.status = "pending"
                     /\ r.resp.body.pendingIndices = <<>>

\* the whole scenario has run and its last call has answered
C13_Witness ==
  /\ script = 7
  /\ req[1].kind = "status" /\ req[1].pc = "done"
  /\ req[1].resp.body.pendingIndices = <<>>
  /\ jobs[1].status = "pending" /\ jobs[1].uploaded_files = 3

\* C14 (Scenario B): a submit answered with the 400 'not all files uploaded'
\* error has changed nothing: the job is still 'draft' and its counters and
\* every job_files status are as before.
C14_FailedSubmitStep(s) ==
  (/\ req'[s].kind = "submit" /\ req[s].pc # "done" /\ req'[s].pc = "done"
   /\ req'[s].resp = HTTPException(400, "Not all files have been uploaded yet."))
    => /\ UNCHANGED store
       /\ jobs'[req'[s].job].status = "draft"

C14_FailedSubmitKeepsJob == [][\A s \in Slots : C14_FailedSubmitStep(s)]_vars

\* two files registered, only index 0 uploaded, the submit answered 400
C14_Witness ==
  \E s \in Slots :
    /\ req[s].kind = "submit" /\ req[s].pc = "done"
    /\ req[s].resp = HTTPException(400, "Not all files have been uploaded yet.")
    /\ jobs[req[s].job].status = "draft"
    /\ jobs[req[s].job].total_files = 2
    /\ jobs[req[s].job].uploaded_files = 1
    /\ FileStatus(req[s].job, 0) = {"uploaded"}
    /\ FileStatus(req[s].job, 1) = {"pending"}

\* C15: advance-to-completed by the owner goes on to set 'completed' and
\* answer 200 exactly when it reads status 'pending'; on a draft or completed
\* job it answers 400 and changes nothing.
C15_CompleteStep(s) ==
  LET j == req'[s].job IN
  /\ (Starts(s, "complete") /\ JobRowFound(j, req'[s].user))
       => IF jobs[j].status = "pending"
          THEN req'[s].pc = "update" /\ UNCHANGED store
          ELSE /\ req'[s].pc = "done"
               /\ req'[s].resp = HTTPException(400, "Job is not in pending state.")
               /\ UNCHANGED store
  /\ (req[s].kind = "complete" /\ req[s].pc = "update" /\ req'[s].pc = "done")
       => /\ req'[s].resp = Json([jobId |-> j], 200)
          /\ jobs'[j].status = "completed"

C15_AdvanceOnlyFromPending == [][\A s \in Slots : C15_CompleteStep(s)]_vars

\* an advance that read 'pending' has answered 200 and the job is completed
C15_Witness ==
  \E s \in Slots :
    /\ req[s].kind = "complete" /\ req[s].pc = "done"
    /\ req[s].saw.status = "pending" /\ req[s].saw.owner = req[s].user
    /\ req[s].resp.code = 200
    /\ jobs[req[s].job].status = "completed"

\* C16: submit by the owner on a job that is not 'draft' answers the 400
\* 'Already submitted.' error at once and changes nothing.
C16_ResubmitStep(s) ==
  LET j == req'[s].job IN
  (Starts(s, "submit") /\ JobRowFound(j, req'[s].user) /\ jobs[j].status # "draft")
    => /\ req'[s].pc = "done"
       /\ req'[s].resp = HTTPException(400, "Already submitted.")
       /\ UNCHANGED store

C16_AlreadySubmitted == [][\A s \in Slots : C16_ResubmitStep(s)]_vars

\* a second submit, made after the job became pending, was answered 400
C16_Witness ==
  \E s \in Slots :
    /\ req[s].kind = "submit" /\ req[s].pc = "done"
    /\ req[s].saw.status = "pending" /\ req[s].saw.owner = req[s].user
    /\ req[s].resp = HTTPException(400, "Already submitted.")
    /\ jobs[req[s].job].status = "pending"

\* C17: uploaded_files never decreases from one state to the next and always
\* lies between 0 and total_files.
C17_CounterStep(j) ==
  /\ 0 <= jobs'[j].uploaded_files
  /\ jobs'[j].uploaded_files <= jobs'[j].total_files
  /\ j \in DOMAIN jobs => jobs'[j].uploaded_files >= jobs[j].uploaded_files

C17_CounterMonotoneBounded == [][\A j \in DOMAIN jobs' : C17_CounterStep(j)]_vars

\* the counter of a two-file job has reached its bound
C17_Witness ==
  \E j \in DOMAIN jobs :
    jobs[j].total_files = 2 /\ jobs[j].uploaded_files = 2

\* C18: a job_files row that is 'uploaded' stays 'uploaded'; every call's
\* guarded update leaves the row 'uploaded', and the call sees a change
\* (and goes on to increment) exactly when it is the one that took the row
\* from 'pending' to 'uploaded', so one call among those for an index does.
C18_FlipStep(s) ==
  (req[s].kind = "upload" /\ req[s].pc = "flip" /\ req'[s].pc # "flip")
    => LET j == req[s].job
           i == req[s].idx
       IN /\ \A k \in RowsOf(job_files', j, i) : job_files'[k].upload_status = "uploaded"
          /\ req'[s].pc = "incr"
               <=> \E k \in RowsOf(job_files, j, i) :
                     job_files[k].upload_status = "pending"
          /\ req'[s].pc = "read" <=> job_files' = job_files

C18_FlipOnce ==
  [][/\ \A k \in DOMAIN job_files :
          job_files[k].upload_status = "uploaded"
            => job_files'[k].upload_status = "uploaded"
     /\ \A s \in Slots : C18_FlipStep(s)]_vars

\* two overlapping calls for one index: one saw the change and is about to
\* increment, the other saw none
C18_Witness ==
  \E s, t \in Slots :
    /\ req[s].kind = "upload" /\ req[t].kind = "upload"
    /\ req[s].job = req[t].job /\ req[s].idx = req[t].idx
    /\ req[s].pc = "incr" /\ req[t].pc = "read"
    /\ incs[<<req[s].job, req[s].idx>>] = 0

\* C19: the storage_key of a job_files row never changes, and every
\* BUCKET.put of upload-file(jobId, i) writes under the key of the row
\* (jobId, i), first upload or not.
C19_PutStep(s) ==
  (req[s].kind = "upload" /\ req[s].pc = "put" /\ req'[s].pc # "put")
    => LET keys == {job_files[k].storage_key :
                      k \in RowsOf(job_files, req[s].job, req[s].idx)}
       IN /\ keys = {req[s].key}
          /\ bucket' = bucket \cup keys

C19_StorageKeyStable ==
  [][/\ \A k \in DOMAIN job_files :
          job_files'[k].storage_key = job_files[k].storage_key
     /\ \A s \in Slots : C19_PutStep(s)]_vars

\* a re-upload of an index already uploaded has written its blob again
C19_Witness ==
  \E s \in Slots :
    /\ req[s].kind = "upload" /\ req[s].pc = "flip"
    /\ FileStatus(req[s].job, req[s].idx) = {"uploaded"}
    /\ req[s].key \in bucket
    /\ incs[<<req[s].job, req[s].idx>>] = 1

\* C20: every 200 response of upload-file(jobId, i) carries fileIndex = i, the
\* job's total_files, and an uploadedFiles that counts file i (so at least 1).
C20_UploadResponse ==
  \A s \in Slots :
    (req[s].kind = "upload" /\ req[s].pc = "done" /\ req[s].resp.code = 200)
      => /\ req[s].resp.body.fileIndex = req[s].idx
         /\ req[s].resp.body.totalFiles = jobs[req[s].job].total_files
         /\ req[s].resp.body.uploadedFiles >= 1

\* C21: a create-draft that ended in a store failure has left no row of its
\* job: no jobs row, no job_files row, no job_recipients row.
C21_NoPartialDraft ==
  \A s \in Slots :
    (req[s].kind = "draft" /\ req[s].pc = "done" /\ req[s].resp = InternalServerError)
      => /\ req[s].job \notin DOMAIN jobs
         /\ RowsOfJob(job_files, req[s].job) = {}
         /\ RowsOfJob(job_recipients, req[s].job) = {}

\* C22: no blob is written under a key of a job whose status is no longer
\* 'draft': every BUCKET.put of upload-file runs while the job is 'draft'.
C22_PutStep(s) ==
  (req[s].kind = "upload" /\ req[s].pc = "put" /\ req'[s].pc = "flip")
    => jobs[req[s].job].status = "draft"

C22_NoWriteAfterPending == [][\A s \in Slots : C22_PutStep(s)]_vars

\* C23: whatever step an upload-file call failed after, a draft job stays
\* submittable by retrying: once no call is running and get-status lists no
\* pending index for a job whose files are all registered, uploaded_files has
\* reached total_files, so submit passes its completeness check.
C23_Recoverable ==
  \A j \in DOMAIN jobs :
    (/\ \A s \in Slots : ~InFlight(s)
     /\ jobs[j].status = "draft"
     /\ FileRowCount(j) = jobs[j].total_files
     /\ PendingIndices(j) = <<>>)
      => SubmitOutcome(TRUE, jobs[j]) = NoResp

\* C24: every job_files row that is 'uploaded', and every index an increment
\* was made for, has an object in the bucket under the row's storage key.
C24_BlobBeforeAcknowledge ==
  \A k \in DOMAIN job_files :
    (\/ job_files[k].upload_status = "uploaded"
     \/ incs[<<job_files[k].job_id, job_files[k].file_index>>] > 0)
      => job_files[k].storage_key \in bucket

\* a file is uploaded and counted, its blob is in the bucket
C24_Witness ==
  \E k \in DOMAIN job_files :
    /\ job_files[k].upload_status = "uploaded"
    /\ incs[<<job_files[k].job_id, job_files[k].file_index>>] = 1
    /\ jobs[job_files[k].job_id].uploaded_files = 1
    /\ job_files[k].storage_key \in bucket

\* C25: an upload-file call whose put stored nothing ends there with a 500,
\* and every call that ends at its put leaves job_files and jobs as they were.
C25_PutFailStep(s) ==
  /\ (req[s].kind = "upload" /\ req[s].pc = "put" /\ req'[s].pc # "put"
        /\ req[s].key \notin bucket')
       => /\ req'[s].pc = "done"
          /\ req'[s].resp = InternalServerError
  /\ (req[s].kind = "upload" /\ req[s].pc = "put" /\ req'[s].pc = "done")
       => /\ req'[s].resp.code = 500
          /\ UNCHANGED <<jobs, job_files, incs>>

C25_PutFailureChangesNothing == [][\A s \in Slots : C25_PutFailStep(s)]_vars

\* an upload ended in a 500 with no blob under the row's key: the row is still
\* pending and nothing is counted
C25_Witness ==
  \E s \in Slots :
    /\ req[s].kind = "upload" /\ req[s].pc = "done"
    /\ req[s].resp = InternalServerError
    /\ \E k \in RowsOf(job_files, req[s].job, req[s].idx) :
         /\ job_files[k].storage_key \notin bucket
         /\ job_files[k].upload_status = "pending"
    /\ jobs[req[s].job].uploaded_files = 0

\* C26: no increment is lost: uploaded_files is the number of increments made,
\* and once two calls for two distinct indices of a job have both answered 200
\* both are counted.
RECURSIVE SumIncs(_, _)
SumIncs(j, I) ==
  IF I = {} THEN 0
  ELSE LET i == CHOOSE x \in I : TRUE
       IN incs[<<j, i>>] + SumIncs(j, I \ {i})

C26_NoLostIncrement ==
  \A j \in DOMAIN jobs :
    /\ jobs[j].uploaded_files = SumIncs(j, FileIndices)
    /\ \A s, t \in Slots :
         (/\ req[s].kind = "upload" /\ req[t].kind = "upload"
          /\ req[s].job = j /\ req[t].job = j /\ req[s].idx # req[t].idx
          /\ Accepted(s) /\ Accepted(t)
          /\ req[s].pc = "done" /\ req[t].pc = "done"
          /\ req[s].resp.code = 200 /\ req[t].resp.code = 200)
           => jobs[j].uploaded_files >= 2

\* two calls for distinct indices are running at once, both have incremented
C26_Witness ==
  \E s, t \in Slots :
    /\ req[s].kind = "upload" /\ req[t].kind = "upload"
    /\ req[s].job = req[t].job /\ req[s].idx # req[t].idx
    /\ req[s].pc = "read" /\ req[t].pc = "read"
    /\ incs[<<req[s].job, req[s].idx>>] = 1 /\ incs[<<req[t].job, req[t].idx>>] = 1
    /\ jobs[req[s].job].uploaded_files = 2

\* the slot that takes the step, the kind of its request and the job it names
Moved(s) == req'[s] # req[s]
KindOf(s) == IF req[s].pc = "idle" THEN req'[s].kind ELSE req[s].kind
JobOf(s) == IF req[s].pc = "idle" THEN req'[s].job ELSE req[s].job

\* C27: upload-file by the owner of a draft job whose files are registered,
\* with an index at or beyond total_files, answers 404 at once and changes
\* nothing: no blob, no job_files status, no counter.
C27_OutOfRangeStep(s) ==
  LET j == req'[s].job IN
  (/\ Starts(s, "upload") /\ JobRowFound(j, req'[s].user)
   /\ jobs[j].status = "draft"
   /\ req'[s].idx >= jobs[j].total_files)
    => /\ req'[s].pc = "done"
       /\ req'[s].resp = HTTPException(404, "File not found or job is not in draft state.")
       /\ UNCHANGED <<store, incs>>

C28_FrameStep(s) ==
  /\ (Moved(s) /\ KindOf(s) = "upload")
       => \A j \in DOMAIN jobs : jobs'[j].status = jobs[j].status
  /\ (Moved(s) /\ KindOf(s) \in {"submit", "complete"})
       => /\ \A j \in DOMAIN jobs :
               /\ jobs'[j].uploaded_files = jobs[j].uploaded_files
               /\ jobs'[j].total_files = jobs[j].total_files
          /\ UNCHANGED <<job_files, bucket>>
  /\ (Moved(s) /\ \E j \in DOMAIN jobs : jobs'[j].uploaded_files # jobs[j].uploaded_files)
       => KindOf(s) = "upload"
  /\ (Moved(s) /\ \E j \in DOMAIN jobs : jobs'[j].status # jobs[j].status)
       => KindOf(s) \in {"submit", "complete"}

C28_WritersOfCounterAndStatus == [][\A s \in Slots : C28_FrameStep(s)]_vars

\* a submit has answered 200: the job is pending, its two files still counted
\* and uploaded, their blobs still there
C28_Witness ==
  \E s \in Slots :
    /\ req[s].kind = "submit" /\ req[s].pc = "done" /\ req[s].resp.code = 200
    /\ jobs[req[s].job].status = "pending"
    /\ jobs[req[s].job].uploaded_files = 2
    /\ UploadedCount(req[s].job) = 2
    /\ Cardinality(bucket) = 2

\* C29: no step of a get-status call, answered 200 or 404, changes the store.
C29_StatusFrameStep(s) == (Moved(s) /\ KindOf(s) = "status") => UNCHANGED <<store, incs>>

C29_GetStatusReadOnly == [][\A s \in Slots : C29_StatusFrameStep(s)]_vars

\* one get-status answered 200 on a job with an uploaded and a pending file,
\* another answered 404
C29_Witness ==
  \E s, t \in Slots :
    /\ req[s].kind = "status" /\ req[s].pc = "done" /\ req[s].resp.code = 200
    /\ req[t].kind = "status" /\ req[t].pc = "done" /\ req[t].resp.code = 404
    /\ jobs[req[s].job].uploaded_files = 1
    /\ req[s].resp.body.pendingIndices = <<1>>
    /\ FileStatus(req[s].job, 0) = {"uploaded"}
    /\ FileStatus(req[s].job, 1) = {"pending"}

\* C30: a step of a call that names job A leaves every other job's row, its
\* job_files rows and its blobs as they were; create-draft names the job it
\* creates, so it leaves every job that existed before it unchanged.
FilesOf(table, j) == SelectSeq(table, LAMBDA jf : jf.job_id = j)
BlobsOf(b, j) == {k \in b : k[1] = j}

C30_IsolationStep(s) ==
  Moved(s) =>
    \A j \in DOMAIN jobs :
      j # JobOf(s) => /\ jobs'[j] = jobs[j]
                      /\ FilesOf(job_files', j) = FilesOf(job_files, j)
                      /\ FilesOf(job_recipients', j) = FilesOf(job_recipients, j)
                      /\ BlobsOf(bucket', j) = BlobsOf(bucket, j)

C30_JobIsolation == [][\A s \in Slots : C30_IsolationStep(s)]_vars

\* alice's job was created, uploaded and submitted while bob's draft stayed
\* as it was
C30_Witness ==
  \E s \in Slots :
    /\ req[s].kind = "submit" /\ req[s].pc = "done" /\ req[s].resp.code = 200
    /\ req[s].job = 1
    /\ jobs[1].status = "pending" /\ jobs[1].uploaded_files = 1
    /\ jobs[OtherJob].status = "draft" /\ jobs[OtherJob].uploaded_files = 0
    /\ FileStatus(OtherJob, 0) = {"pending"}
    /\ BlobsOf(bucket, OtherJob) = {}

\* C31: a job, once its row exists, is never deleted and keeps its owner and
\* total_files; its job_files and job_recipients rows (index, storage key,
\* recipient) are changed by no step other than its own create-draft, only
\* their upload_status moves.
FileIdentity(table, j) ==
  [k \in DOMAIN FilesOf(table, j) |->
     <<FilesOf(table, j)[k].file_index, FilesOf(table, j)[k].storage_key>>]

C31_ImmutableStep ==
  \A j \in DOMAIN jobs :
    /\ j \in DOMAIN jobs'
    /\ jobs'[j].user_email = jobs[j].user_email
    /\ jobs'[j].total_files = jobs[j].total_files
    /\ (\A s \in Slots : (Moved(s) /\ KindOf(s) = "draft") => JobOf(s) # j)
         => /\ FileIdentity(job_files', j) = FileIdentity(job_files, j)
            /\ FilesOf(job_recipients', j) = FilesOf(job_recipients, j)

C31_DraftDataImmutable == [][C31_ImmutableStep]_vars

\* a job went through uploads, submit and advance: it is completed and still
\* has its owner, its total_files and its two rows
C31_Witness ==
  \E j \in DOMAIN jobs :
    /\ jobs[j].status = "completed"
    /\ jobs[j].user_email = "alice" /\ jobs[j].total_files = 2
    /\ FileIdentity(job_files, j) = <<<<0, <<j, 1>>>>, <<1, <<j, 2>>>>>>
    /\ UploadedCount(j) = 2

\* C33: a job whose status is 'pending' or 'completed' has uploaded_files
\* equal to total_files, all its total_files rows registered and every one of
\* them 'uploaded'.
C33_SubmittedMeansComplete ==
  \A j \in DOMAIN jobs :
    jobs[j].status \in {"pending", "completed"}
      => /\ jobs[j].uploaded_files = jobs[j].total_files
         /\ FileRowCount(j) = jobs[j].total_files
         /\ UploadedCount(j) = jobs[j].total_files

\* a two-file job is pending with both files uploaded and counted
C33_Witness ==
  \E j \in DOMAIN jobs :
    /\ jobs[j].status = "pending"
    /\ jobs[j].total_files = 2 /\ jobs[j].uploaded_files = 2
    /\ UploadedCount(j) = 2

\* C34: no two submit calls for one job both answer 200.
C34_OneSubmitSucceeds ==
  \A s, t \in Slots :
    (/\ s # t
     /\ req[s].kind = "submit" /\ req[t].kind = "submit"
     /\ req[s].job = req[t].job
     /\ req[s].pc = "done" /\ req[t].pc = "done")
      => ~(req[s].resp.code = 200 /\ req[t].resp.code = 200)

\* C35: no two job_files rows hold the same storage key, and the key an
\* upload-file call puts under belongs to the row of its own (job, index) only.
C35_KeysDistinct ==
  /\ \A k, l \in DOMAIN job_files :
       job_files[k].storage_key = job_files[l].storage_key => k = l
  /\ \A s \in Slots :
       (req[s].kind = "upload" /\ req[s].pc = "put")
         => \A k \in DOMAIN job_files :
              job_files[k].storage_key = req[s].key
                => /\ job_files[k].job_id = req[s].job
                   /\ job_files[k].file_index = req[s].idx

\* three rows of two jobs, one of them about to be written by an upload
C35_Witness ==
  /\ Len(job_files) = 3
  /\ Cardinality({job_files[k].storage_key : k \in DOMAIN job_files}) = 3
  /\ \E s \in Slots :
       /\ req[s].kind = "upload" /\ req[s].pc = "put" /\ req[s].job = 1
       /\ BlobsOf(bucket, OtherJob) # {}

\* C36: upload-file by the owner on a draft job and a registered index with no
\* binary `file` field answers 400 and changes nothing; when the row is not
\* found the answer is 404 whether or not the field is there.
C36_PayloadStep(s) ==
  LET rows == UploadFileRows(req'[s].job, req'[s].idx, req'[s].user) IN
  /\ (Starts(s, "upload") /\ rows # <<>> /\ ~req'[s].hasFile)
       => /\ req'[s].pc = "done"
          /\ req'[s].resp = HTTPException(400, "Missing file field.")
          /\ UNCHANGED <<store, incs>>
  /\ (Starts(s, "upload") /\ rows = <<>>)
       => /\ req'[s].pc = "done"
          /\ req'[s].resp.code = 404
          /\ UNCHANGED <<store, incs>>

C36_MissingFileField == [][\A s \in Slots : C36_PayloadStep(s)]_vars

\* both cases answered: a registered index without the field got 400, an
\* unregistered one without the field got 404
C36_Witness ==
  \E s, t \in Slots :
    /\ req[s].kind = "upload" /\ req[s].pc = "done" /\ ~req[s].hasFile
    /\ req[s].saw.status = "draft" /\ req[s].saw.owner = req[s].user /\ req[s].saw.row
    /\ req[s].resp.code = 400
    /\ req[t].kind = "upload" /\ req[t].pc = "done" /\ ~req[t].hasFile
    /\ ~req[t].saw.row /\ req[t].resp.code = 404
    /\ bucket = {}

\* C32: every call that has started ends with a response, whatever the other
\* requests do or do not do; and each store operation of a call brings it
\* nearer to its response, so a call makes at most Rank of its first step
\* further store operations.
Rank(pc) ==
  CASE pc = "put" -> 4
    [] pc = "flip" -> 3
    [] pc = "incr" -> 2
    [] pc \in {"read", "batch", "update", "pending"} -> 1
    [] OTHER -> 0

C32_Bounded ==
  [][\A s \in Slots : (InFlight(s) /\ Moved(s)) => Rank(req'[s].pc) < Rank(req[s].pc)]_vars

C32_Terminates ==
  /\ \A s \in Slots : InFlight(s) ~> (req[s].pc = "done")
  /\ C32_Bounded

\* an upload has answered 200 while another call on the same job is still at
\* its first store write
C32_Witness ==
  \E s, t \in Slots :
    /\ req[s].kind = "upload" /\ req[s].pc = "done" /\ req[s].resp.code = 200
    /\ req[t].kind = "upload" /\ req[t].pc = "put" /\ req[t].job = req[s].job
    /\ jobs[req[s].job].uploaded_files < jobs[req[s].job].total_files

\* C37: a /jobs/* request whose header is not a bearer token that is signed,
\* unexpired and carries sub, name, iat and exp is answered 401 by the
\* middleware: no handler step runs and the store is unchanged.
ValidToken(tok) ==
  /\ tok.bearer /\ tok.signed /\ ~tok.expired
  /\ tok.sub # "absent" /\ tok.hasName /\ tok.hasIat /\ tok.hasExp

C37_UnauthenticatedStep(s) ==
  (req[s].pc = "idle" /\ req'[s].pc # "idle" /\ ~ValidToken(presented[s]))
    => /\ req'[s].pc = "done"
       /\ req'[s].resp.code = 401
       /\ UNCHANGED <<store, incs>>

C37_Unauthenticated401 == [][\A s \in Slots : C37_UnauthenticatedStep(s)]_vars

\* a request on an existing draft came with a signed, unexpired token that
\* lacks the name claim and was answered 401
C37_Witness ==
  \E s \in Slots :
    /\ req[s].pc = "done" /\ req[s].resp.code = 401 /\ req[s].kind = "upload"
    /\ presented[s].signed /\ ~presented[s].expired /\ ~presented[s].hasName
    /\ presented[s].sub \in Users
    /\ \E j \in DOMAIN jobs :
         jobs[j].user_email = presented[s].sub /\ jobs[j].status = "draft"
           /\ FileRowCount(j) > 0

\* C38: a request that came with a token whose type is not 'access' is
\* answered 401 and nothing else.
C38_AccessTokensOnly ==
  \A s \in Slots :
    (req[s].pc # "idle" /\ presented[s].type # "access")
      => req[s].pc = "done" /\ req[s].resp.code = 401

\* C39: no two users rows hold the same email; no step changes or removes an
\* existing users row; a signup whose INSERT finds the email registered is
\* answered 409, a response that carries no token, and adds no row.
C39_Unique ==
  \A k, l \in DOMAIN users : users[k].email = users[l].email => k = l

C39_SignupStep(s) ==
  (/\ req[s].kind = "signup" /\ req[s].pc = "insert" /\ req'[s].pc = "done"
   /\ \E k \in DOMAIN users : users[k].email = req[s].user)
    => /\ req'[s].resp = HTTPException(409, "Email is already in use.")
       /\ DOMAIN req'[s].resp = {"code", "message"}
       /\ users' = users

C39_OneAccountPerEmail ==
  /\ []C39_Unique
  /\ [][/\ \A k \in DOMAIN users : k \in DOMAIN users' /\ users'[k] = users[k]
        /\ \A s \in Slots : C39_SignupStep(s)]_vars

\* two overlapping signups for one email have answered, one 201 and one 409,
\* and the table holds the one row of the first
C39_Witness ==
  \E s, t \in Slots :
    /\ req[s].kind = "signup" /\ req[t].kind = "signup"
    /\ req[s].user = req[t].user
    /\ req[s].pc = "done" /\ req[t].pc = "done"
    /\ req[s].resp.code = 201 /\ req[t].resp.code = 409
    /\ Len(users) = 1
    /\ users[1].email = req[s].user
    /\ users[1].name = req[s].resp.body.user.name

====
